---- MODULE Spec2Model ----
(***************************************************************************)
(* The SinkWebhook controller of operator/src/sink/webhook_controller.rs:  *)
(* the finalizer-gated dispatch (reconcile_webhook), the Apply path        *)
(* (SinkWebhook::reconcile), the Cleanup path (SinkWebhook::cleanup) and   *)
(* the error policy, run against a cluster that holds one SinkWebhook      *)
(* resource and the pods of its namespace.                                 *)
(*                                                                         *)
(* Every await of the source is one step: the cluster call it makes takes  *)
(* effect (or fails) in that step, and the clock, the pod's container and  *)
(* the user may act between two steps.                                     *)
(***************************************************************************)
EXTENDS Integers, Sequences, FiniteSets, TLC

VARIABLES
    now,                \* the wall clock (Utc::now()), in seconds
    exists,             \* the SinkWebhook resource is stored in the cluster
    finalizers,         \* metadata.finalizers of the stored resource
    deletion_timestamp, \* metadata.deletionTimestamp is set
    spec,               \* the resource spec
    status,             \* the resource status (Option<SinkWebhookStatus>)
    pods,               \* the pods of the namespace, by name (Option<Pod>)
    pc,                 \* where each invocation of reconcile_webhook stands
    webhook,            \* the object each invocation was handed (self)
    existing_pod,       \* reconcile's local existing_pod
    restart_increment,  \* reconcile's local restart_increment
    error_condition,    \* reconcile's local error_condition
    pod,                \* reconcile's local pod (the applied pod)
    outcome,            \* what the last dispatch returned to the controller
    cleanups,           \* Cleanup invocations since the resource was created
    deletions,          \* pods.delete calls of reconcile that have succeeded
    status_write_failed \* the last pass applied the pod and failed patch_status

vars == <<now, exists, finalizers, deletion_timestamp, spec, status, pods, pc,
          webhook, existing_pod, restart_increment, error_condition, pod,
          outcome, cleanups, deletions, status_write_failed>>

cluster == <<exists, finalizers, deletion_timestamp, spec, status, pods>>
locals == <<existing_pod, restart_increment, error_condition, pod>>
\* What the properties remember of the run; the controller does not read it.
observed == <<deletions, status_write_failed>>

-----------------------------------------------------------------------------
(* Bounds of the model. *)

\* The run is followed for MaxTime seconds.
MaxTime == 155
\* The run starts this many seconds before the end of a day.
BeforeMidnight == 30
\* Cleanup invocations that are counted.
MaxCleanups == 3

-----------------------------------------------------------------------------
(* Program constants. *)

WEBHOOK_FINALIZER == "sinkwebhook.apibara.com"
\* Duration::from_secs(60): how long a terminated pod is left alone.
GraceSecs == 60
\* Duration::from_secs(10): the requeue of reconcile and cleanup.
RequeueSecs == 10
\* Duration::from_secs(30): the requeue of error_policy.
ErrorRequeueSecs == 30
\* The span of NaiveTime, what DateTime::time() returns.
DaySecs == 86400

\* metadata.name of the resource, and another name of the namespace.
Name == "hook"
PodNames == {"hook", "sink"}

\* The invocations of reconcile_webhook; the controller runs one at a time.
Procs == {1, 2}
Serial == {1}

StartTime == DaySecs - BeforeMidnight
\* The clock is sampled at these distances.
TickSteps == {30, 31}

-----------------------------------------------------------------------------
(* Option<T>. *)

None == <<>>
Some(x) == <<x>>
IsSome(o) == o # <<>>
Unwrap(o) == o[1]

\* spec.common: the environment it contributes and the filter and transform
\* of its stream.
NoCommon == [env |-> <<>>, filter |-> None, transform |-> None]
StreamCommon == [env |-> <<[name |-> "STREAM_URL", value |-> "http://stream"]>>,
                 filter |-> Some("filter.json"), transform |-> Some("transform.js")]

\* The resource specs the user may have written.
SpecInputs ==
    { [target_url |-> "http://example/hook", raw |-> None, common |-> NoCommon],
      [target_url |-> "http://other/hook", raw |-> Some(TRUE),
       common |-> StreamCommon] }

\* All the shapes of a spec: raw unset, false and true, with and without
\* contributions of the common part.
AllSpecInputs ==
    { [target_url |-> u, raw |-> r, common |-> c] :
         u \in {"http://example/hook", "http://other/hook"},
         r \in {None, Some(FALSE), Some(TRUE)},
         c \in {NoCommon, StreamCommon} }

-----------------------------------------------------------------------------
(* The pure parts of SinkWebhook::reconcile. *)

\* Option::unwrap_or.
UnwrapOr(o, d) == IF IsSome(o) THEN Unwrap(o) ELSE d

\* ResourceExt::name_any: metadata.name of the resource.
name_any(w) == w.name

\* SinkWebhook::object_metadata: the pod is named after the resource.
object_metadata(w) == [name |-> w.name]

\* CommonSpec::to_env_var: the environment the common part contributes.
to_env_var(common) == common.env

\* StreamSpec::filter_data and transform_data: the env entry that goes with
\* the volume and the mount, when the stream has a filter or a transform.
filter_data(common) ==
    IF IsSome(common.filter)
    THEN Some([name |-> "FILTER", value |-> Unwrap(common.filter)]) ELSE None
transform_data(common) ==
    IF IsSome(common.transform)
    THEN Some([name |-> "TRANSFORM", value |-> Unwrap(common.transform)]) ELSE None

\* RAW is pushed whenever the field is set, whatever its value.
pod_spec_RawWhenSet(w) ==
    LET target == [name |-> "TARGET_URL", value |-> w.spec.target_url]
        raw == [name |-> "RAW", value |-> "true"]
        env == (IF IsSome(w.spec.raw) THEN <<target, raw>> ELSE <<target>>)
               \o to_env_var(w.spec.common)
               \o filter_data(w.spec.common)
               \o transform_data(w.spec.common)
    IN  [containers |-> <<[name |-> "sink", env |-> env]>>,
         restart_policy |-> "Never"]

\* SinkWebhook::pod_spec: the container environment and the restart policy.
pod_spec(w) ==
    LET target == [name |-> "TARGET_URL", value |-> w.spec.target_url]
        raw == [name |-> "RAW", value |-> "true"]
        env == (IF UnwrapOr(w.spec.raw, FALSE) THEN <<target, raw>> ELSE <<target>>)
               \o to_env_var(w.spec.common)
               \o filter_data(w.spec.common)
               \o transform_data(w.spec.common)
    IN  [containers |-> <<[name |-> "sink", env |-> env]>>,
         restart_policy |-> "Never"]

\* The Pod handed to pods.patch.
pod_manifest(w) == [metadata |-> object_metadata(w), spec |-> pod_spec(w)]

\* DateTime::time(): the time of day, the date dropped.
TimeOfDay(t) == t % DaySecs

\* (Utc::now().time() - finished_at.0.time()).to_std().unwrap_or_default():
\* a negative difference has no std Duration and becomes zero.
Elapsed(t, finished_at) ==
    LET d == TimeOfDay(t) - TimeOfDay(finished_at)
    IN  IF d < 0 THEN 0 ELSE d

\* A wrong threshold: half a minute.
GraceExpired_HalfMinute(elapsed) == elapsed > 30

\* elapsed > Duration::from_secs(60)
GraceExpired(elapsed) == elapsed > GraceSecs

\* The PodTerminated condition of a pod that is left alone.
PodTerminatedCondition(finished_at) ==
    [type |-> "PodTerminated", status |-> "False", reason |-> "PodTerminate",
     message |-> "Pod has been terminated", last_transition_time |-> finished_at]

\* The PodScheduled condition of the applied pod.
PodScheduledCondition(applied) ==
    [type |-> "PodScheduled", status |-> "True", reason |-> "PodScheduled",
     message |-> "Pod has been scheduled",
     last_transition_time |-> applied.creation_timestamp]

\* The phase does not follow the condition.
Phase_AlwaysRunning(ec) == "Running"

\* let phase = if error_condition.is_some() ...
Phase(ec) == IF IsSome(ec) THEN "Error" ELSE "Running"

\* let mut conditions = vec![pod_scheduled_condition]; ... conditions.push
Conditions(applied, ec) ==
    IF IsSome(ec) THEN <<PodScheduledCondition(applied), Unwrap(ec)>>
    ELSE <<PodScheduledCondition(applied)>>

\* The increment is dropped.
RestartCount_NoIncrement(st, inc) ==
    IF IsSome(st) THEN Some(UnwrapOr(Unwrap(st).restart_count, 0)) ELSE None

\* The previous count is dropped.
RestartCount_Forgets(st, inc) == IF IsSome(st) THEN Some(inc) ELSE None

\* self.status.as_ref().map(|status| restart_count.unwrap_or_default() + inc):
\* no previous status gives no restart_count.
RestartCount(st, inc) ==
    IF IsSome(st) THEN Some(UnwrapOr(Unwrap(st).restart_count, 0) + inc) ELSE None

\* The container's name is recorded instead of the pod's.
NewStatus_ContainerName(w, applied, ec, inc) ==
    [pod_created |-> Some(applied.creation_timestamp),
     instance_name |-> Some(applied.spec.containers[1].name),
     phase |-> Some(Phase(ec)),
     conditions |-> Some(Conditions(applied, ec)),
     restart_count |-> RestartCount(w.status, inc)]

\* The name of the previous status is carried over instead of the pod's.
NewStatus_KeepsName(w, applied, ec, inc) ==
    [pod_created |-> Some(applied.creation_timestamp),
     instance_name |-> IF IsSome(w.status) THEN Unwrap(w.status).instance_name
                       ELSE None,
     phase |-> Some(Phase(ec)),
     conditions |-> Some(Conditions(applied, ec)),
     restart_count |-> RestartCount(w.status, inc)]

\* The SinkWebhookStatus that patch_status writes.
NewStatus(w, applied, ec, inc) ==
    [pod_created |-> Some(applied.creation_timestamp),
     instance_name |-> Some(applied.name),
     phase |-> Some(Phase(ec)),
     conditions |-> Some(Conditions(applied, ec)),
     restart_count |-> RestartCount(w.status, inc)]

-----------------------------------------------------------------------------
(* The cluster's side of the calls. *)

\* Every apply makes the pod anew.
ApplyManifest_Recreates(ps, name, manifest, t) ==
    [ps EXCEPT ![name] = Some([name |-> name, creation_timestamp |-> t,
                               finished_at |-> None, spec |-> manifest.spec])]

\* pods.patch(name, PatchParams::apply(..), Patch::Apply(manifest)): creates
\* the pod when there is none of that name, else updates the one that is.
ApplyManifest(ps, name, manifest, t) ==
    IF IsSome(ps[name])
    THEN [ps EXCEPT ![name] = Some([Unwrap(ps[name]) EXCEPT !.spec = manifest.spec])]
    ELSE [ps EXCEPT ![name] = Some([name |-> name, creation_timestamp |-> t,
                                    finished_at |-> None, spec |-> manifest.spec])]

\* The delete is accepted and the pod stays.
DeletePod_KeepsPod(ps, name) == ps

\* pods.delete(name, ..)
DeletePod(ps, name) == [ps EXCEPT ![name] = None]

\* The pods that exist.
LivePods == {n \in PodNames : IsSome(pods[n])}

-----------------------------------------------------------------------------
(* The state after construction: a resource the user has just created, no   *)
(* pod, no invocation running.                                              *)

NoOutcome == [result |-> "none", error |-> "none", requeue |-> None]
NoWebhook == [name |-> Name, finalizers |-> {}, deletion_timestamp |-> FALSE,
              spec |-> CHOOSE s \in SpecInputs : TRUE, status |-> None]

Init ==
    /\ now = StartTime
    /\ exists = TRUE
    /\ finalizers = {}
    /\ deletion_timestamp = FALSE
    /\ spec \in SpecInputs
    /\ status = None
    /\ pods = [n \in PodNames |-> None]
    /\ pc = [p \in Procs |-> "idle"]
    /\ webhook = [p \in Procs |-> NoWebhook]
    /\ existing_pod = [p \in Procs |-> None]
    /\ restart_increment = [p \in Procs |-> 0]
    /\ error_condition = [p \in Procs |-> None]
    /\ pod = [p \in Procs |-> None]
    /\ outcome = [p \in Procs |-> NoOutcome]
    /\ cleanups = 0
    /\ deletions = 0
    /\ status_write_failed = FALSE

-----------------------------------------------------------------------------
(* How an invocation ends. *)

\* An error is retried as soon as a success is.
error_policy_SameAsSuccess(error) == [result |-> "Err", error |-> error,
                                      requeue |-> Some(RequeueSecs)]

\* error_policy: every error is retried after 30 seconds.
error_policy(error) == [result |-> "Err", error |-> error,
                        requeue |-> Some(ErrorRequeueSecs)]

\* Ok(Action::requeue(Duration::from_secs(10)))
OkRequeue == [result |-> "Ok", error |-> "none", requeue |-> Some(RequeueSecs)]

\* Ok(Action::await_change())
OkAwaitChange == [result |-> "Ok", error |-> "none", requeue |-> None]

\* The invocation returns o; its locals are dropped.
Return(p, o) ==
    /\ pc' = [pc EXCEPT ![p] = "idle"]
    /\ outcome' = [outcome EXCEPT ![p] = o]
    /\ existing_pod' = [existing_pod EXCEPT ![p] = None]
    /\ restart_increment' = [restart_increment EXCEPT ![p] = 0]
    /\ error_condition' = [error_condition EXCEPT ![p] = None]
    /\ pod' = [pod EXCEPT ![p] = None]

\* A call failed: `?` returns the error, finalizer() wraps it, map_err makes
\* it Error::Finalizer, and the controller hands it to error_policy.
Fail(p) == Return(p, error_policy("Finalizer"))

\* The invocation moves on to its next await.
Goto(p, label) == pc' = [pc EXCEPT ![p] = label]

-----------------------------------------------------------------------------
(* reconcile_webhook: finalizer::finalizer picks the event.                 *)

\* Which of its four cases finalizer() takes for the object it is handed.
FinalizerState(w) ==
    IF WEBHOOK_FINALIZER \in w.finalizers
    THEN IF w.deletion_timestamp THEN "cleanup" ELSE "apply"
    ELSE IF w.deletion_timestamp THEN "nothing" ELSE "add_finalizer"

\* The arms of the match are swapped.
Handler_Swapped(event) == IF event = "apply" THEN "cleanup_get" ELSE "get_pod"

\* The closure handed to finalizer(): Apply runs reconcile, Cleanup runs
\* cleanup. The result is the first await of the handler.
Handler(event) == IF event = "apply" THEN "get_pod" ELSE "cleanup_get"

\* The label an invocation starts at.
Entry(w) ==
    CASE FinalizerState(w) \in {"apply", "cleanup"} -> Handler(FinalizerState(w))
      [] FinalizerState(w) = "add_finalizer" -> "add_finalizer"
      [] OTHER -> "idle"

\* The controller calls reconcile_webhook with the stored resource.
Dispatch(p) ==
    /\ pc[p] = "idle"
    /\ exists
    /\ LET w == [name |-> Name, finalizers |-> finalizers,
                 deletion_timestamp |-> deletion_timestamp,
                 spec |-> spec, status |-> status]
       IN  /\ webhook' = [webhook EXCEPT ![p] = w]
           /\ pc' = [pc EXCEPT ![p] = Entry(w)]
           /\ outcome' = [outcome EXCEPT ![p] =
                            IF Entry(w) = "idle" THEN OkAwaitChange ELSE NoOutcome]
           /\ cleanups' = IF FinalizerState(w) = "cleanup" /\ cleanups < MaxCleanups
                          THEN cleanups + 1 ELSE cleanups
    /\ UNCHANGED observed
    /\ UNCHANGED <<now, cluster, locals>>

\* The token is not there and the resource is not being deleted: finalizer()
\* adds the token and returns await_change without calling Apply.
AddFinalizer(p) ==
    /\ pc[p] = "add_finalizer"
    /\ \/ /\ exists
          /\ finalizers' = finalizers \cup {WEBHOOK_FINALIZER}
          /\ Return(p, OkAwaitChange)
       \/ /\ UNCHANGED finalizers
          /\ Fail(p)
    /\ UNCHANGED observed
    /\ UNCHANGED <<now, exists, deletion_timestamp, spec, status, pods, webhook,
                   cleanups>>

\* Cleanup has returned Ok: finalizer() removes the token, and the cluster
\* removes a resource that is being deleted and has no finalizer left.
RemoveFinalizer(p) ==
    /\ pc[p] = "remove_finalizer"
    /\ \/ /\ exists
          /\ WEBHOOK_FINALIZER \in finalizers
          /\ finalizers' = finalizers \ {WEBHOOK_FINALIZER}
          /\ exists' = ~(deletion_timestamp /\ finalizers' = {})
          /\ Return(p, OkRequeue)
       \/ /\ UNCHANGED <<finalizers, exists>>
          /\ Fail(p)
    /\ UNCHANGED observed
    /\ UNCHANGED <<now, deletion_timestamp, spec, status, pods, webhook, cleanups>>

-----------------------------------------------------------------------------
(* SinkWebhook::reconcile, the Apply path.                                  *)

\* The pod named by the previous status, if it names one: pods.get_opt.
GetPod(p) ==
    /\ pc[p] = "get_pod"
    /\ LET st == webhook[p].status
           pod_name == IF IsSome(st) THEN Unwrap(st).instance_name ELSE None
       IN  IF IsSome(pod_name)
           THEN \/ /\ existing_pod' = [existing_pod EXCEPT ![p] = pods[Unwrap(pod_name)]]
                   /\ Goto(p, "evaluate")
                   /\ UNCHANGED <<restart_increment, error_condition, pod, outcome>>
                \/ Fail(p)
           ELSE /\ Goto(p, "evaluate")
                /\ UNCHANGED <<locals, outcome>>
    /\ status_write_failed' = (status_write_failed /\ pc'[p] # "idle")
    /\ UNCHANGED deletions
    /\ UNCHANGED <<now, cluster, webhook, cleanups>>

\* The error of pods.delete is dropped and the pass goes on.
Evaluate_IgnoresDeleteError(p) ==
    /\ pc[p] = "evaluate"
    /\ LET container_finished_at ==
               IF IsSome(existing_pod[p])
               THEN Unwrap(existing_pod[p]).finished_at ELSE None
       IN  IF IsSome(container_finished_at)
           THEN LET finished_at == Unwrap(container_finished_at)
                    elapsed == Elapsed(now, finished_at)
                    pod_name == Unwrap(existing_pod[p]).name
                IN  IF GraceExpired(elapsed)
                    THEN \/ /\ IsSome(pods[pod_name])
                            /\ pods' = DeletePod(pods, pod_name)
                            /\ restart_increment' = [restart_increment EXCEPT ![p] = 1]
                            /\ Goto(p, "apply_pod")
                            /\ UNCHANGED <<existing_pod, error_condition, pod, outcome>>
                         \/ /\ UNCHANGED pods
                            /\ restart_increment' = [restart_increment EXCEPT ![p] = 1]
                            /\ Goto(p, "apply_pod")
                            /\ UNCHANGED <<existing_pod, error_condition, pod, outcome>>
                    ELSE /\ error_condition' = [error_condition EXCEPT ![p] =
                                Some(PodTerminatedCondition(finished_at))]
                         /\ Goto(p, "apply_pod")
                         /\ UNCHANGED <<pods, existing_pod, restart_increment, pod,
                                        outcome>>
           ELSE /\ Goto(p, "apply_pod")
                /\ UNCHANGED <<pods, locals, outcome>>
    /\ deletions' = IF pods' # pods THEN deletions + 1 ELSE deletions
    /\ status_write_failed' = (status_write_failed /\ pc'[p] # "idle")
    /\ UNCHANGED <<now, exists, finalizers, deletion_timestamp, spec, status,
                   webhook, cleanups>>

\* The first container's terminated.finished_at decides: delete the pod
\* (pods.delete) when the grace period is over, else report PodTerminated.
Evaluate(p) ==
    /\ pc[p] = "evaluate"
    /\ LET container_finished_at ==
               IF IsSome(existing_pod[p])
               THEN Unwrap(existing_pod[p]).finished_at ELSE None
       IN  IF IsSome(container_finished_at)
           THEN LET finished_at == Unwrap(container_finished_at)
                    elapsed == Elapsed(now, finished_at)
                    pod_name == Unwrap(existing_pod[p]).name
                IN  IF GraceExpired(elapsed)
                    THEN \/ /\ IsSome(pods[pod_name])
                            /\ pods' = DeletePod(pods, pod_name)
                            /\ restart_increment' = [restart_increment EXCEPT ![p] = 1]
                            /\ Goto(p, "apply_pod")
                            /\ UNCHANGED <<existing_pod, error_condition, pod, outcome>>
                         \/ /\ UNCHANGED pods
                            /\ Fail(p)
                    ELSE /\ error_condition' = [error_condition EXCEPT ![p] =
                                Some(PodTerminatedCondition(finished_at))]
                         /\ Goto(p, "apply_pod")
                         /\ UNCHANGED <<pods, existing_pod, restart_increment, pod,
                                        outcome>>
           ELSE /\ Goto(p, "apply_pod")
                /\ UNCHANGED <<pods, locals, outcome>>
    /\ deletions' = IF pods' # pods THEN deletions + 1 ELSE deletions
    /\ status_write_failed' = (status_write_failed /\ pc'[p] # "idle")
    /\ UNCHANGED <<now, exists, finalizers, deletion_timestamp, spec, status,
                   webhook, cleanups>>

\* pods.patch(&name, apply, pod_manifest): the cluster refuses a manifest
\* whose name is not the name of the call.
ApplyPod(p) ==
    /\ pc[p] = "apply_pod"
    /\ LET name == name_any(webhook[p])
           manifest == pod_manifest(webhook[p])
       IN  \/ /\ manifest.metadata.name = name
              /\ pods' = ApplyManifest(pods, name, manifest, now)
              /\ pod' = [pod EXCEPT ![p] = pods'[name]]
              /\ Goto(p, "patch_status")
              /\ UNCHANGED <<existing_pod, restart_increment, error_condition, outcome>>
           \/ /\ UNCHANGED pods
              /\ Fail(p)
    /\ status_write_failed' = (status_write_failed /\ pc'[p] # "idle")
    /\ UNCHANGED deletions
    /\ UNCHANGED <<now, exists, finalizers, deletion_timestamp, spec, status,
                   webhook, cleanups>>

\* A failed status write takes the applied pod back.
PatchStatus_RollsBack(p) ==
    /\ pc[p] = "patch_status"
    /\ \/ /\ exists
          /\ status' = Some(NewStatus(webhook[p], Unwrap(pod[p]), error_condition[p],
                                      restart_increment[p]))
          /\ UNCHANGED pods
          /\ Return(p, OkRequeue)
       \/ /\ UNCHANGED status
          /\ pods' = DeletePod(pods, Unwrap(pod[p]).name)
          /\ Fail(p)
    /\ status_write_failed' = (outcome'[p].result = "Err")
    /\ UNCHANGED deletions
    /\ UNCHANGED <<now, exists, finalizers, deletion_timestamp, spec, webhook,
                   cleanups>>

\* webhooks.patch_status(&name, merge, status), then Ok(requeue(10s)).
PatchStatus(p) ==
    /\ pc[p] = "patch_status"
    /\ \/ /\ exists
          /\ status' = Some(NewStatus(webhook[p], Unwrap(pod[p]), error_condition[p],
                                      restart_increment[p]))
          /\ Return(p, OkRequeue)
       \/ /\ UNCHANGED status
          /\ Fail(p)
    /\ status_write_failed' = (outcome'[p].result = "Err")
    /\ UNCHANGED deletions
    /\ UNCHANGED <<now, exists, finalizers, deletion_timestamp, spec, pods,
                   webhook, cleanups>>

-----------------------------------------------------------------------------
(* SinkWebhook::cleanup, the Cleanup path.                                  *)

\* A cleanup that deletes nothing.
CleanupGet_DeletesNothing(p) ==
    /\ pc[p] = "cleanup_get"
    /\ \/ /\ Goto(p, "remove_finalizer")
          /\ UNCHANGED <<locals, outcome>>
       \/ Fail(p)
    /\ UNCHANGED observed
    /\ UNCHANGED <<now, cluster, webhook, cleanups>>

\* pods.get_opt(&name): is there a pod named after the resource?
CleanupGet(p) ==
    /\ pc[p] = "cleanup_get"
    /\ \/ /\ Goto(p, IF IsSome(pods[name_any(webhook[p])])
                     THEN "cleanup_delete" ELSE "remove_finalizer")
          /\ UNCHANGED <<locals, outcome>>
       \/ Fail(p)
    /\ UNCHANGED observed
    /\ UNCHANGED <<now, cluster, webhook, cleanups>>

\* The error of pods.delete is dropped instead of returned.
CleanupDelete_IgnoresError(p) ==
    /\ pc[p] = "cleanup_delete"
    /\ \/ /\ IsSome(pods[name_any(webhook[p])])
          /\ pods' = DeletePod(pods, name_any(webhook[p]))
       \/ UNCHANGED pods
    /\ Goto(p, "remove_finalizer")
    /\ UNCHANGED observed
    /\ UNCHANGED <<now, exists, finalizers, deletion_timestamp, spec, status,
                   webhook, locals, outcome, cleanups>>

\* pods.delete(&name, ..), then Ok(requeue(10s)) to finalizer().
CleanupDelete(p) ==
    /\ pc[p] = "cleanup_delete"
    /\ \/ /\ IsSome(pods[name_any(webhook[p])])
          /\ pods' = DeletePod(pods, name_any(webhook[p]))
          /\ Goto(p, "remove_finalizer")
          /\ UNCHANGED <<locals, outcome>>
       \/ /\ UNCHANGED pods
          /\ Fail(p)
    /\ UNCHANGED observed
    /\ UNCHANGED <<now, exists, finalizers, deletion_timestamp, spec, status,
                   webhook, cleanups>>

-----------------------------------------------------------------------------
(* What is not the controller.                                              *)

\* Time passes.
Tick ==
    /\ \E d \in TickSteps :
          /\ now + d <= StartTime + MaxTime
          /\ now' = now + d
    /\ UNCHANGED observed
    /\ UNCHANGED <<cluster, pc, webhook, locals, outcome, cleanups>>

\* The container of a pod exits; the kubelet records terminated.finishedAt.
PodTerminates ==
    /\ \E n \in PodNames :
          /\ IsSome(pods[n])
          /\ ~IsSome(Unwrap(pods[n]).finished_at)
          /\ pods' = [pods EXCEPT ![n] = Some([Unwrap(pods[n]) EXCEPT
                                                  !.finished_at = Some(now)])]
    /\ UNCHANGED observed
    /\ UNCHANGED <<now, exists, finalizers, deletion_timestamp, spec, status, pc,
                   webhook, locals, outcome, cleanups>>

\* The user deletes the resource: the cluster sets the deletion timestamp
\* and removes the resource once it has no finalizer.
DeleteResource ==
    /\ exists
    /\ ~deletion_timestamp
    /\ deletion_timestamp' = TRUE
    /\ exists' = (finalizers # {})
    /\ UNCHANGED observed
    /\ UNCHANGED <<now, finalizers, spec, status, pods, pc, webhook, locals,
                   outcome, cleanups>>

-----------------------------------------------------------------------------

\* One step of invocation p.
Step(p) ==
    \/ Dispatch(p)
    \/ AddFinalizer(p)
    \/ GetPod(p)
    \/ Evaluate(p)
    \/ ApplyPod(p)
    \/ PatchStatus(p)
    \/ CleanupGet(p)
    \/ CleanupDelete(p)
    \/ RemoveFinalizer(p)

\* The controller runs the invocations for one resource one after the other.
Next ==
    \/ \E p \in Serial : Step(p)
    \/ Tick
    \/ PodTerminates
    \/ DeleteResource

Spec == Init /\ [][Next]_vars

\* The controller dispatches again after every requeue and every error, and
\* no call fails for ever: each call of the deletion path succeeds in the end.
Fairness ==
    /\ \A p \in Serial : WF_vars(Step(p))
    /\ \A p \in Serial : SF_vars(CleanupGet(p) /\ pc'[p] # "idle")
    /\ \A p \in Serial : SF_vars(CleanupDelete(p) /\ pc'[p] # "idle")
    /\ \A p \in Serial : SF_vars(RemoveFinalizer(p) /\ outcome'[p].result = "Ok")

\* Time passes, a grace period and a second at a time.
LongTick ==
    /\ now + GraceSecs + 1 <= StartTime + MaxTime
    /\ now' = now + GraceSecs + 1
    /\ UNCHANGED observed
    /\ UNCHANGED <<cluster, pc, webhook, locals, outcome, cleanups>>

\* The invocations run one after the other, the clock sampled across the
\* threshold.
FairNext ==
    \/ \E p \in Serial : Step(p)
    \/ LongTick
    \/ PodTerminates
    \/ DeleteResource

FairSpec == Init /\ [][FairNext]_vars /\ Fairness

-----------------------------------------------------------------------------
(* The reconcile passes of a resource whose spec the user edits, over all   *)
(* the shapes of a spec.                                                    *)

EditInit ==
    /\ now = StartTime
    /\ exists = TRUE
    /\ finalizers = {}
    /\ deletion_timestamp = FALSE
    /\ spec \in AllSpecInputs
    /\ status = None
    /\ pods = [n \in PodNames |-> None]
    /\ pc = [p \in Procs |-> "idle"]
    /\ webhook = [p \in Procs |-> NoWebhook]
    /\ existing_pod = [p \in Procs |-> None]
    /\ restart_increment = [p \in Procs |-> 0]
    /\ error_condition = [p \in Procs |-> None]
    /\ pod = [p \in Procs |-> None]
    /\ outcome = [p \in Procs |-> NoOutcome]
    /\ cleanups = 0
    /\ deletions = 0
    /\ status_write_failed = FALSE

\* The user writes another spec.
EditSpec ==
    /\ exists
    /\ \E s \in AllSpecInputs :
          /\ s # spec
          /\ spec' = s
    /\ UNCHANGED observed
    /\ UNCHANGED <<now, exists, finalizers, deletion_timestamp, status, pods, pc,
                   webhook, locals, outcome, cleanups>>

\* One step of a reconcile pass of invocation p.
ApplyStep(p) ==
    \/ Dispatch(p)
    \/ AddFinalizer(p)
    \/ GetPod(p)
    \/ Evaluate(p)
    \/ ApplyPod(p)
    \/ PatchStatus(p)

EditNext ==
    \/ \E p \in Serial : ApplyStep(p)
    \/ PodTerminates
    \/ EditSpec

EditSpecification == EditInit /\ [][EditNext]_vars

-----------------------------------------------------------------------------
(* Two invocations for the same resource at once, as after a crash and a    *)
(* resume: their reconcile passes interleave.                               *)

RaceNext ==
    \/ \E p \in Procs : ApplyStep(p)
    \/ LongTick
    \/ PodTerminates

RaceSpec == Init /\ [][RaceNext]_vars

-----------------------------------------------------------------------------
(* Vocabulary of the properties.                                            *)

\* Invocation p leaves label l in this step.
Leaves(p, l) == pc[p] = l /\ pc'[p] # l

\* Invocation p returns an error in this step.
Fails(p) == pc[p] # "idle" /\ pc'[p] = "idle" /\ outcome'[p].result = "Err"

\* patch_status of invocation p succeeds in this step.
WritesStatus(p) == Leaves(p, "patch_status") /\ ~Fails(p)

\* The restart count a status holds, an absent one counting as zero.
RestartsOf(st) == IF IsSome(st) THEN UnwrapOr(Unwrap(st).restart_count, 0) ELSE 0

\* The types of the conditions a status holds.
ConditionTypes(st) ==
    IF IsSome(st)
    THEN {Unwrap(Unwrap(st).conditions)[i].type :
             i \in 1..Len(Unwrap(Unwrap(st).conditions))}
    ELSE {}

\* The seconds that have really passed since the container of pod o finished.
SinceFinished(o) == now - Unwrap(Unwrap(o).finished_at)

\* Invocation p holds a pod whose container has terminated.
FoundTerminated(p) ==
    IsSome(existing_pod[p]) /\ IsSome(Unwrap(existing_pod[p]).finished_at)

\* No invocation is running.
Quiet == \A p \in Procs : pc[p] = "idle"

-----------------------------------------------------------------------------
(* C1 -- a pass that finds the pod's container terminated less than 60 s    *)
(* ago does not delete the pod, does not count a restart, and reports it:   *)
(* the status it writes has phase Error, a PodTerminated condition (False,  *)
(* PodTerminate) and the restart count the status had before.               *)

C1_RecentlyTerminated ==
    [][\A p \in Procs :
          /\ (Leaves(p, "evaluate") /\ FoundTerminated(p)
                /\ SinceFinished(existing_pod[p]) < GraceSecs)
             => /\ pods' = pods
                /\ pc'[p] = "apply_pod"
                /\ restart_increment'[p] = 0
                /\ IsSome(error_condition'[p])
                /\ Unwrap(error_condition'[p]).type = "PodTerminated"
                /\ Unwrap(error_condition'[p]).status = "False"
                /\ Unwrap(error_condition'[p]).reason = "PodTerminate"
          /\ (WritesStatus(p) /\ IsSome(error_condition[p]))
             => /\ IsSome(pods'[Name])
                /\ Unwrap(status').phase = Some("Error")
                /\ Unwrap(error_condition[p]) =
                      Unwrap(Unwrap(status').conditions)[2]
                /\ RestartsOf(status') = RestartsOf(status)
                /\ IsSome(Unwrap(status').restart_count)
      ]_vars

\* A terminated pod that was left alone and reported.
C1_Witness ==
    /\ Quiet
    /\ outcome[1].result = "Ok"
    /\ IsSome(pods[Name])
    /\ IsSome(Unwrap(pods[Name]).finished_at)
    /\ IsSome(status)
    /\ Unwrap(status).phase = Some("Error")
    /\ "PodTerminated" \in ConditionTypes(status)

-----------------------------------------------------------------------------
(* C2 -- as claimed: a pass deletes a terminated pod if and only if at      *)
(* least 60 s have passed since its container finished; at exactly 60 s it  *)
(* is deleted and no PodTerminated condition is made, below 60 s it is not  *)
(* deleted.                                                                 *)

C2_GraceWindowThreshold ==
    [][\A p \in Procs :
          (Leaves(p, "evaluate") /\ FoundTerminated(p))
          => /\ (SinceFinished(existing_pod[p]) >= GraceSecs)
                => \/ Fails(p)
                   \/ /\ ~IsSome(pods'[Name])
                      /\ restart_increment'[p] = 1
                      /\ ~IsSome(error_condition'[p])
             /\ (SinceFinished(existing_pod[p]) < GraceSecs) => pods' = pods
      ]_vars

-----------------------------------------------------------------------------
(* C3 -- a pass that deletes a stale pod and then succeeds ends with a pod  *)
(* named after the resource, created after the deleted one, and writes a    *)
(* status with phase Running, no PodTerminated condition and the previous   *)
(* restart count plus exactly one; restart_increment is 1 exactly when the  *)
(* pass has deleted the pod.                                                *)

C3_RecycleOutcome ==
    [][\A p \in Procs :
          /\ Leaves(p, "evaluate")
             => ((IsSome(pods[Name]) /\ ~IsSome(pods'[Name]))
                    <=> restart_increment'[p] = 1)
          /\ (WritesStatus(p) /\ restart_increment[p] = 1)
             => /\ IsSome(pods'[Name])
                /\ Unwrap(pods'[Name]).creation_timestamp >
                      Unwrap(existing_pod[p]).creation_timestamp
                /\ Unwrap(status').phase = Some("Running")
                /\ "PodTerminated" \notin ConditionTypes(status')
                /\ Unwrap(status').restart_count = Some(RestartsOf(status) + 1)
      ]_vars

\* A pod that was recycled once: recreated, running, one restart counted.
C3_Witness ==
    /\ Quiet
    /\ outcome[1].result = "Ok"
    /\ IsSome(pods[Name])
    /\ Unwrap(pods[Name]).creation_timestamp > StartTime + GraceSecs
    /\ IsSome(status)
    /\ Unwrap(status).phase = Some("Running")
    /\ Unwrap(status).restart_count = Some(1)
    /\ Unwrap(status).pod_created = Some(Unwrap(pods[Name]).creation_timestamp)

-----------------------------------------------------------------------------
(* C4 -- the restart count stored in the status never decreases, whatever   *)
(* passes succeed or fail.                                                  *)

C4_RestartCountMonotonic == [][RestartsOf(status') >= RestartsOf(status)]_vars

\* Two recycles have been counted, and a later pass has failed.
C4_Witness ==
    /\ Quiet
    /\ outcome[1].result = "Err"
    /\ IsSome(status)
    /\ Unwrap(status).restart_count = Some(2)

-----------------------------------------------------------------------------
(* C5 -- as claimed: once the deletion timestamp is set on a resource that  *)
(* carries the token, exactly one Cleanup invocation is dispatched, and the *)
(* token is removed only after Cleanup has succeeded, the pod being gone.   *)

\* The finalizer token is taken off the resource in this step.
TokenRemoved ==
    WEBHOOK_FINALIZER \in finalizers /\ WEBHOOK_FINALIZER \notin finalizers'

C5_ExactlyOneCleanup ==
    [][/\ cleanups' <= 1
       /\ TokenRemoved
          => /\ ~IsSome(pods[Name])
             /\ \E p \in Procs : Leaves(p, "remove_finalizer") /\ ~Fails(p)
      ]_vars

(* C5, amended -- Cleanup is dispatched only for a resource that carries    *)
(* the token and has its deletion timestamp set, and a second time only     *)
(* after the dispatch before it has failed; a Cleanup that succeeds leaves  *)
(* no pod of the resource's name, deleting the one it found; and the token  *)
(* is removed only after a Cleanup has succeeded, when the pod is gone.     *)

C5_FinalizerProtocol ==
    [][/\ \A p \in Procs :
             /\ (Leaves(p, "idle") /\ pc'[p] = "cleanup_get")
                => /\ deletion_timestamp
                   /\ WEBHOOK_FINALIZER \in finalizers
                   /\ cleanups >= 1 => outcome[p].result = "Err"
             /\ (Leaves(p, "cleanup_delete") /\ ~Fails(p))
                => IsSome(pods[Name]) /\ ~IsSome(pods'[Name])
             /\ (pc[p] # "remove_finalizer" /\ pc'[p] = "remove_finalizer")
                => ~IsSome(pods'[Name])
       /\ TokenRemoved
          => /\ deletion_timestamp
             /\ cleanups >= 1
             /\ LivePods = {}
             /\ \E p \in Procs : Leaves(p, "remove_finalizer") /\ ~Fails(p)
      ]_vars

\* The resource that owned a pod is gone after one Cleanup: pod deleted,
\* token removed, requeue in 10 s returned.
C5_Witness ==
    /\ ~exists
    /\ deletion_timestamp
    /\ WEBHOOK_FINALIZER \notin finalizers
    /\ cleanups = 1
    /\ IsSome(status)
    /\ LivePods = {}
    /\ outcome[1] = OkRequeue

-----------------------------------------------------------------------------
(* C6 -- a dispatch that fails returns a finalizer error that the error     *)
(* policy retries after 30 s, and changes neither the finalizers nor the    *)
(* presence of the resource; a Cleanup whose pod delete did not remove the  *)
(* pod fails; and after a failed dispatch of a resource that carried the    *)
(* token, the resource is still stored and still carries it.                *)

C6_FailedCleanupBlocksDeletion ==
    [][\A p \in Procs :
          /\ Fails(p)
             => /\ outcome'[p].error = "Finalizer"
                /\ outcome'[p].requeue = Some(ErrorRequeueSecs)
                /\ finalizers' = finalizers
                /\ exists' = exists
                /\ deletion_timestamp' = deletion_timestamp
          /\ (Leaves(p, "cleanup_delete") /\ IsSome(pods'[Name])) => Fails(p)
          /\ (pc[p] = "idle" /\ outcome[p].result = "Err"
                /\ WEBHOOK_FINALIZER \in webhook[p].finalizers)
             => exists /\ WEBHOOK_FINALIZER \in finalizers
      ]_vars

\* A Cleanup has failed: the pod, the token and the resource are still there.
C6_Witness ==
    /\ Quiet
    /\ outcome[1] = error_policy("Finalizer")
    /\ cleanups >= 1
    /\ exists
    /\ deletion_timestamp
    /\ WEBHOOK_FINALIZER \in finalizers
    /\ IsSome(pods[Name])

-----------------------------------------------------------------------------
(* C7 -- there is at most one pod, and every pod that exists, that a pass   *)
(* found or applied, that Cleanup looks up, or that the status names, has   *)
(* the name of the resource.                                                *)

C7_SingleOwnedPod ==
    /\ Cardinality(LivePods) <= 1
    /\ \A n \in LivePods : n = Name /\ Unwrap(pods[n]).name = Name
    /\ IsSome(status) => Unwrap(status).instance_name = Some(Name)
    /\ \A p \in Procs :
          /\ IsSome(pod[p]) => Unwrap(pod[p]).name = Name
          /\ IsSome(existing_pod[p]) => Unwrap(existing_pod[p]).name = Name
          /\ pc[p] \in {"cleanup_get", "cleanup_delete"} => name_any(webhook[p]) = Name

\* The pod of the resource exists and the status names it.
C7_Witness ==
    /\ LivePods = {Name}
    /\ IsSome(status)
    /\ Unwrap(status).instance_name = Some(Unwrap(pods[Name]).name)

-----------------------------------------------------------------------------
(* C8 -- as claimed, read between passes: whenever a pod exists, the status *)
(* names it in instance_name.                                               *)

C8_InstanceNameAlways ==
    Quiet => \A n \in LivePods :
                IsSome(status) /\ Unwrap(status).instance_name = Some(n)

(* C8, amended -- once a status has been written, instance_name is the name *)
(* of every pod that exists and of every pod a pass applies, and each       *)
(* status write records the name of the pod that pass applied; until the    *)
(* first status write succeeds a pod can exist with no instance_name.       *)

C8_InstanceNameTracks ==
    [][/\ IsSome(status)
          => \A n \in LivePods : Unwrap(status).instance_name = Some(n)
       /\ \A p \in Procs :
             /\ WritesStatus(p)
                => /\ Unwrap(status').instance_name = Some(Unwrap(pod[p]).name)
                   /\ IsSome(pods'[Unwrap(pod[p]).name])
             /\ (Leaves(p, "apply_pod") /\ ~Fails(p) /\ IsSome(status))
                => Unwrap(status).instance_name = Some(Unwrap(pod'[p]).name)
      ]_vars

\* The status names the pod that the last pass applied.
C8_Witness ==
    /\ Quiet
    /\ outcome[1] = OkRequeue
    /\ IsSome(pods[Name])
    /\ IsSome(status)
    /\ Unwrap(status).instance_name = Some(Name)
    /\ Unwrap(status).pod_created = Some(Unwrap(pods[Name]).creation_timestamp)
    /\ Unwrap(status).restart_count = Some(0)

-----------------------------------------------------------------------------
(* C9 -- the resource is stored and carries the token while a pass of the   *)
(* Apply path runs and whenever a pod exists; the Apply path runs only on   *)
(* an object with the token and no deletion timestamp, Cleanup only on one  *)
(* with a deletion timestamp; and a dispatch of a resource that carries the *)
(* token and has no deletion timestamp calls Apply.                         *)

ApplyLabels == {"get_pod", "evaluate", "apply_pod", "patch_status"}
CleanupLabels == {"cleanup_get", "cleanup_delete", "remove_finalizer"}

-----------------------------------------------------------------------------
(* C10 -- as claimed: a pass that finds no pod (no previous status, no      *)
(* instance_name, or the named pod gone) counts no restart, creates the pod *)
(* and writes the restart count of the previous status, or 0 when there is  *)
(* no previous status; the first status written has phase Running, the      *)
(* resource's name as instance_name and the one condition PodScheduled.     *)

C10_PodAbsentPass ==
    [][\A p \in Procs :
          /\ (Leaves(p, "evaluate") /\ ~IsSome(existing_pod[p]))
             => restart_increment'[p] = 0 /\ pods' = pods
          /\ (Leaves(p, "apply_pod") /\ ~Fails(p) /\ ~IsSome(existing_pod[p]))
             => ~IsSome(pods[Name]) /\ IsSome(pods'[Name])
          /\ (WritesStatus(p) /\ ~IsSome(existing_pod[p]))
             => /\ Unwrap(status').restart_count = Some(RestartsOf(status))
                /\ ~IsSome(status)
                   => /\ Unwrap(status').phase = Some("Running")
                      /\ Unwrap(status').instance_name = Some(Name)
                      /\ Len(Unwrap(Unwrap(status').conditions)) = 1
                      /\ ConditionTypes(status') = {"PodScheduled"}
      ]_vars

-----------------------------------------------------------------------------
(* C11 -- every status a pass writes has PodScheduled (True) as its first   *)
(* condition, followed by PodTerminated exactly when the pass made that     *)
(* condition, and by nothing else; its phase is Error exactly when the pass *)
(* made the PodTerminated condition, and Running otherwise.                 *)

C11_StatusProjection ==
    [][\A p \in Procs :
          WritesStatus(p)
          => LET conditions == Unwrap(Unwrap(status').conditions)
                 phase == Unwrap(Unwrap(status').phase)
             IN  /\ Len(conditions) = IF IsSome(error_condition[p]) THEN 2 ELSE 1
                 /\ conditions[1].type = "PodScheduled"
                 /\ conditions[1].status = "True"
                 /\ conditions[1].reason = "PodScheduled"
                 /\ Len(conditions) = 2 => conditions[2].type = "PodTerminated"
                 /\ phase = "Error" <=> IsSome(error_condition[p])
                 /\ phase = "Error" <=> "PodTerminated" \in ConditionTypes(status')
                 /\ phase \in {"Error", "Running"}
      ]_vars

\* After one recycle the new pod has terminated too and a pass has reported
\* it: PodScheduled first, then PodTerminated, phase Error.
C11_Witness ==
    /\ Quiet
    /\ IsSome(status)
    /\ Unwrap(status).phase = Some("Error")
    /\ Len(Unwrap(Unwrap(status).conditions)) = 2
    /\ Unwrap(Unwrap(status).conditions)[1].type = "PodScheduled"
    /\ Unwrap(Unwrap(status).conditions)[2].type = "PodTerminated"
    /\ Unwrap(status).restart_count = Some(1)

-----------------------------------------------------------------------------
(* C12 -- a pass runs fetch, evaluate (with the delete), apply, status      *)
(* write in this order; a failed fetch, delete or apply ends the pass with  *)
(* an error and no requeue of its own, the failing call changing nothing,   *)
(* and the status is then what it was when the pass began; only a status    *)
(* write that succeeds changes the status, and only it returns Ok.          *)

C12_AbortOnFailure ==
    [][/\ \A p \in Procs :
             /\ Leaves(p, "get_pod") => pc'[p] \in {"evaluate", "idle"}
             /\ Leaves(p, "evaluate") => pc'[p] \in {"apply_pod", "idle"}
             /\ Leaves(p, "apply_pod") => pc'[p] \in {"patch_status", "idle"}
             /\ Leaves(p, "patch_status") => pc'[p] = "idle"
             /\ (pc[p] \in {"get_pod", "evaluate", "apply_pod"} /\ pc'[p] = "idle")
                => /\ Fails(p)
                   /\ outcome'[p] # OkRequeue
                   /\ pods' = pods
                   /\ status' = status
                   /\ status = webhook[p].status
             /\ (Leaves(p, "evaluate") /\ FoundTerminated(p)
                   /\ GraceExpired(Elapsed(now,
                          Unwrap(Unwrap(existing_pod[p]).finished_at)))
                   /\ IsSome(pods'[Name]))
                => Fails(p)
             /\ (Leaves(p, "apply_pod") /\ ~IsSome(pods'[Name])) => Fails(p)
             /\ (pc[p] \in ApplyLabels /\ outcome'[p].result = "Ok")
                => WritesStatus(p)
       /\ status' # status => \E p \in Procs : WritesStatus(p)
      ]_vars

\* The delete of a stale pod succeeded and the apply after it failed: the
\* pass returned an error and the status is the one from before the pass.
C12_Witness ==
    /\ Quiet
    /\ exists
    /\ ~deletion_timestamp
    /\ outcome[1] = error_policy("Finalizer")
    /\ ~status_write_failed
    /\ deletions = 1
    /\ ~IsSome(pods[Name])
    /\ IsSome(status)
    /\ Unwrap(status).instance_name = Some(Name)
    /\ RestartsOf(status) = 0

-----------------------------------------------------------------------------
(* C13 -- as claimed: when the pod apply succeeds and the status write      *)
(* fails, the pod persists, and the pass after it does not change the pods. *)

C13_OnlyStatusRetried ==
    [][\A p \in Procs :
          /\ (Leaves(p, "patch_status") /\ Fails(p))
             => pods' = pods /\ IsSome(pods[Name])
          /\ (status_write_failed /\ pc[p] \in ApplyLabels /\ pc'[p] # pc[p])
             => pods' = pods
      ]_vars

(* C13, amended -- when the pod apply succeeds and the status write fails,  *)
(* the pod persists and the status is left as it was. The pass after it     *)
(* runs every step again: its apply of the same manifest changes nothing    *)
(* and it writes the status; it changes the pods only when it finds the     *)
(* container terminated with the grace period over, and then it deletes     *)
(* the pod and creates it again.                                            *)

C13_NoRollback ==
    [][\A p \in Procs :
          /\ (Leaves(p, "patch_status") /\ Fails(p))
             => pods' = pods /\ IsSome(pods[Name]) /\ status' = status
          /\ (status_write_failed /\ pc[p] \in ApplyLabels /\ pc'[p] # pc[p]
                /\ pods' # pods)
             => \/ /\ Leaves(p, "evaluate")
                   /\ FoundTerminated(p)
                   /\ GraceExpired(Elapsed(now,
                          Unwrap(Unwrap(existing_pod[p]).finished_at)))
                   /\ ~IsSome(pods'[Name])
                \/ /\ Leaves(p, "apply_pod")
                   /\ restart_increment[p] = 1
                   /\ ~IsSome(pods[Name])
          /\ (status_write_failed /\ Leaves(p, "apply_pod")
                /\ restart_increment[p] = 0)
             => pods' = pods
      ]_vars

\* The status write of the last pass failed; this pass has applied the same
\* manifest to the pod that persisted and is about to write the status.
C13_Witness ==
    /\ status_write_failed
    /\ pc[1] = "patch_status"
    /\ restart_increment[1] = 0
    /\ IsSome(existing_pod[1])
    /\ pods[Name] = existing_pod[1]
    /\ pod[1] = pods[Name]

-----------------------------------------------------------------------------
(* C14 -- every invocation that ends with an error, whichever call failed   *)
(* in reconcile, in cleanup or in the finalizer wrapper, is retried after   *)
(* 30 s; every reconcile pass that ends without error returns requeue after *)
(* 10 s, whatever it found; and a cleanup that ends without error returns   *)
(* requeue after 10 s whether or not there was a pod to delete.             *)

C14_RequeueSchedule ==
    [][\A p \in Procs :
          /\ (pc[p] # "idle" /\ pc'[p] = "idle")
             => outcome'[p].result \in {"Ok", "Err"}
          /\ Fails(p)
             => /\ outcome'[p].requeue = Some(ErrorRequeueSecs)
                /\ outcome'[p].requeue # Some(RequeueSecs)
          /\ (pc[p] \in ApplyLabels /\ pc'[p] = "idle" /\ ~Fails(p))
             => /\ Leaves(p, "patch_status")
                /\ outcome'[p].result = "Ok"
                /\ outcome'[p].requeue = Some(RequeueSecs)
          /\ (pc[p] \in CleanupLabels /\ pc'[p] = "idle" /\ ~Fails(p))
             => /\ Leaves(p, "remove_finalizer")
                /\ outcome'[p].result = "Ok"
                /\ outcome'[p].requeue = Some(RequeueSecs)
      ]_vars

\* A cleanup that failed was dispatched again and ended with requeue after
\* 10 s, and so had a reconcile pass that recycled the pod before it.
C14_Witness ==
    /\ Quiet
    /\ ~exists
    /\ cleanups = 2
    /\ deletions = 1
    /\ outcome[1] = OkRequeue
    /\ outcome[1].requeue = Some(10)
    /\ error_policy("Finalizer").requeue = Some(30)

-----------------------------------------------------------------------------
(* C15 -- a reconcile pass that finds the pod with no terminated container, *)
(* the spec being the one the pod was made from, does not delete the pod,   *)
(* counts no restart, re-applies the same manifest without changing the     *)
(* pod and writes the restart count it read; a second such pass on the same *)
(* pod writes the status the first one wrote.                               *)

\* Invocation p found the pod running and has not seen it change since.
HealthyPass(p) ==
    /\ IsSome(existing_pod[p])
    /\ ~FoundTerminated(p)
    /\ pods[Name] = existing_pod[p]

C15_HealthyIdempotent ==
    [][\A p \in Procs :
          /\ (Leaves(p, "evaluate") /\ HealthyPass(p))
             => /\ pods' = pods
                /\ pc'[p] = "apply_pod"
                /\ restart_increment'[p] = 0
                /\ ~IsSome(error_condition'[p])
          /\ (Leaves(p, "apply_pod") /\ HealthyPass(p) /\ ~Fails(p)
                /\ Unwrap(pods[Name]).spec = pod_spec(webhook[p]))
             => /\ pods' = pods
                /\ pod'[p] = existing_pod[p]
          /\ (WritesStatus(p) /\ HealthyPass(p))
             => /\ pods' = pods
                /\ RestartsOf(status') = RestartsOf(status)
                /\ Unwrap(status').phase = Some("Running")
                /\ NewStatus([webhook[p] EXCEPT !.status = status'],
                             Unwrap(pods'[Name]), None, 0) = Unwrap(status')
                /\ (/\ IsSome(status)
                    /\ IsSome(Unwrap(status).restart_count)
                    /\ Unwrap(status).phase = Some("Running")
                    /\ Unwrap(status).pod_created
                          = Some(Unwrap(existing_pod[p]).creation_timestamp))
                   => status' = status
      ]_vars

\* A healthy pass is about to write, over the status of a healthy pass, the
\* status of a pod that was made anew after a restart.
C15_Witness ==
    /\ pc[1] = "patch_status"
    /\ HealthyPass(1)
    /\ pod[1] = existing_pod[1]
    /\ status = webhook[1].status
    /\ RestartsOf(status) = 1
    /\ Unwrap(status).phase = Some("Running")
    /\ Unwrap(status).pod_created = Some(Unwrap(pod[1]).creation_timestamp)
    /\ NewStatus(webhook[1], Unwrap(pod[1]), None, 0) = Unwrap(status)

-----------------------------------------------------------------------------
(* C16 -- for every resource spec, the environment of the container of the  *)
(* pod a pass applies has TARGET_URL with the value of spec.target_url, and *)
(* has RAW, with the value "true", if and only if spec.raw is true: not     *)
(* when it is false or unset; the restart policy of the pod is Never.       *)

\* The positions of the entries of env that are named n.
EnvNamed(env, n) == {i \in 1..Len(env) : env[i].name = n}

-----------------------------------------------------------------------------
(* C17 -- as claimed: a pass that runs more than 60 s after the container   *)
(* of the pod finished, and whose calls succeed, deletes the pod and makes  *)
(* it anew, whenever the container finished, shortly before midnight        *)
(* included: the time that counts is the real time since it finished.       *)

C17_EventualRecycle ==
    [][\A p \in Procs :
          /\ (Leaves(p, "evaluate") /\ FoundTerminated(p) /\ ~Fails(p)
                /\ pods[Name] = existing_pod[p]
                /\ SinceFinished(existing_pod[p]) > GraceSecs)
             => /\ ~IsSome(pods'[Name])
                /\ restart_increment'[p] = 1
          /\ (Leaves(p, "apply_pod") /\ FoundTerminated(p) /\ ~Fails(p)
                /\ SinceFinished(existing_pod[p]) > GraceSecs)
             => /\ IsSome(pods'[Name])
                /\ ~IsSome(Unwrap(pods'[Name]).finished_at)
                /\ Unwrap(pods'[Name]).creation_timestamp = now
      ]_vars

-----------------------------------------------------------------------------
(* C18 -- once the resource has a deletion timestamp, and as long as failed *)
(* dispatches are retried and no call fails for ever, the pod is deleted    *)
(* and the token is removed in the end, the resource going with it; and     *)
(* from the moment the cleanup has succeeded there is no pod named after    *)
(* the resource: the controller creates none.                               *)

\* The cleanup of invocation p has returned Ok, or the resource is gone.
CleanupSucceeded == ~exists \/ \E p \in Procs : pc[p] = "remove_finalizer"

C18_DeletionCompletes ==
    /\ deletion_timestamp
          ~> (~exists /\ WEBHOOK_FINALIZER \notin finalizers /\ ~IsSome(pods[Name]))
    /\ [](CleanupSucceeded => ~IsSome(pods[Name]))
    /\ [][CleanupSucceeded => pods' = pods]_vars

\* The resource had a pod and a token; a cleanup failed, a later one deleted
\* the pod and the token was removed.
C18_Witness ==
    /\ ~exists
    /\ deletion_timestamp
    /\ IsSome(status)
    /\ cleanups >= 2
    /\ WEBHOOK_FINALIZER \notin finalizers
    /\ LivePods = {}
    /\ Quiet

-----------------------------------------------------------------------------
(* C19 -- as claimed: when two reconcile passes for the same resource       *)
(* interleave, a pass deletes only the pod it has read, whose container it  *)
(* saw terminated: never a pod that was made anew and has not terminated.   *)

C19_DeleteOnlyObserved ==
    [][\A p \in Procs :
          (Leaves(p, "evaluate") /\ pods' # pods)
          => /\ pods[Name] = existing_pod[p]
             /\ IsSome(Unwrap(pods[Name]).finished_at)
      ]_vars

-----------------------------------------------------------------------------
(* C20 -- as claimed: with the passes run one after the other and any call  *)
(* free to fail, the restart count a successful pass writes is the number   *)
(* of times reconcile has deleted the pod: a delete whose pass then failed  *)
(* is counted by the pass that succeeds later.                              *)

C20_RestartAccounting ==
    [][\A p \in Procs :
          WritesStatus(p) => RestartsOf(status') = deletions'
      ]_vars

====
